---- MODULE Spec2Model ----
(***************************************************************************)
(* Model of crawler.py: the LinkareerCrawler session controller            *)
(* (start/stop, fetch_activity_urls, fetch_activity_details,               *)
(* crawl_pages_by_click) and the reconciliation persist_contests_to_rds.   *)
(*                                                                         *)
(* Spec         the crawl: one call of crawl_pages_by_click                *)
(* PersistSpec  the reconciliation: repeated calls of                      *)
(*              persist_contests_to_rds with one batch                     *)
(***************************************************************************)
EXTENDS Integers, Sequences, FiniteSets, TLC

VARIABLES
    \* ---- crawl_pages_by_click ----
    pc,             \* position of the control flow of crawl_pages_by_click
    max_pages,      \* argument max_pages
    per_page_limit, \* argument per_page_limit (0 stands for None: both are falsy)
    page,           \* loop variable of the page loop (0 before the first iteration)
    bound,          \* the local names that have been assigned so far
    page_url,       \* local page_url: the page index the listing URL ends in
    urls,           \* local urls
    limit,          \* local limit
    queue,          \* urls[:limit], evaluated once when the detail loop starts
    idx,            \* number of items of queue the detail loop has taken
    details,        \* local details: "record" or "None"
    detail_count,   \* local detail_count
    collected,      \* local collected: the detail_url of every record kept
    session,        \* self.driver, the live browser processes, the page shown
    fault,          \* the exception that left crawl_pages_by_click, or "none"
    \* ---- history of the crawl (what a stubbed Browser capability would record) ----
    requested,      \* page indices of the listing URLs navigated to, in order
    emptyPage,      \* first page index whose listing result was empty, 0 if none
    listed,         \* urls[:limit] of every non-empty listing result, concatenated
    visits,         \* the URLs passed to fetch_activity_details, in order
    outcomes,       \* what each of these calls did: "ok", "timeout", "crash", "raise"
    restarts,       \* number of preventive restarts performed
    loop_end,       \* how the page loop ended: "exhausted", "timeout", "empty"; "none" before
    opened_for,     \* per entry of requested: "fresh" when start() created the browser
                    \* for it, "reused" when the browser was already open
    teardown_views, \* the pages live browsers showed when stop() quit them
    \* ---- persist_contests_to_rds ----
    ppc,            \* position of the control flow of persist_contests_to_rds
    records,        \* argument records
    store,          \* the durable rows of table contests
    txn,            \* the rows as the open transaction sees them
    existing_map,   \* local existing_map: <<name, organization_name>> -> id
    rec_i,          \* number of records the staging loop has taken
    insert_payloads,
    update_payloads,
    today,          \* the current local date
    runs,           \* number of calls that have committed
    store_at_call,  \* store when the current call began
    inserted_log,   \* per committed call, the number of rows it inserted
    store_init,     \* store before the first call
    failed_at,      \* the step at which the call failed, or "none"
    \* ---- fetch_activity_urls ----
    lpc,            \* position of the control flow of fetch_activity_urls
    dom,            \* the hrefs of the detail anchors the page shows now
    prev_count,     \* local prev_count
    stable_count,   \* local stable_count
    taken,          \* number of samples the stabilization loop has taken
    anchors,        \* local anchors as read after the loop (line 162)
    found,          \* the list fetch_activity_urls returns
    final_dom,      \* the anchors the last sample counted
    run_len,        \* length of the run of equal counts the last sample ends
    matched,        \* number of leading samples that followed Script13
    \* ---- fetch_activity_details, the field rules ----
    fpc,            \* the rule to apply next, "returned", "crashed" or "off"
    result,         \* local result
    field_hits,     \* the fields whose rule matched its element
    \* ---- main ----
    env_ok,         \* RDS_URL, RDS_USERNAME and RDS_PASSWORD are all set
    skip_db         \* SKIP_DB_WRITE is "true"

crawlVars == <<pc, max_pages, per_page_limit, page, bound, page_url, urls, limit,
               queue, idx, details, detail_count, collected, session, fault,
               requested, emptyPage, listed, visits, outcomes, restarts, loop_end,
               opened_for, teardown_views>>

persistVars == <<ppc, records, store, txn, existing_map, rec_i, insert_payloads,
                 update_payloads, today, runs, store_at_call, inserted_log, store_init,
                 failed_at>>

listVars == <<lpc, dom, prev_count, stable_count, taken, anchors, found, final_dom,
              run_len, matched>>

fieldVars == <<fpc, result, field_hits>>

envVars == <<env_ok, skip_db>>

otherVars == <<listVars, fieldVars, envVars>>

vars == <<crawlVars, persistVars, otherVars>>

\* ---- bounds of the model ----
MaxPages == 3
MaxUrls == 11
MaxLimit == 1

Min(a, b) == IF a < b THEN a ELSE b

(***************************************************************************)
(* BrowserSession: LinkareerCrawler.start / stop                           *)
(***************************************************************************)
Closed == [driver |-> "None", live |-> 0, view |-> "none"]

start_always(s) == [driver |-> "Open", live |-> s.live + 1, view |-> "new"]

\* start(): creates a browser only when self.driver is None
start(s) ==
    IF s.driver = "None"
    THEN [driver |-> "Open", live |-> s.live + 1, view |-> "new"]
    ELSE s

\* stop(): quits the browser self.driver refers to, then self.driver = None
stop(s) ==
    IF s.driver # "None"
    THEN [driver |-> "None", live |-> s.live - 1, view |-> "none"]
    ELSE s

\* driver.get(...) on the current browser
show(s, what) == [s EXCEPT !.view = what]

\* the page the browser shows when stop() quits it (nothing when there is none)
Torn(s) == IF s.driver # "None" THEN {s.view} ELSE {}

(***************************************************************************)
(* fetch_activity_urls: the anchors of the listing, as hrefs.  A URL is    *)
(* <<page, k>>; an href is a URL, or the path <<page, k, "rel">> that      *)
(* resolves to it against BASE_URL.  NoHref is an anchor whose href        *)
(* attribute is empty, Stale one whose get_attribute raises.               *)
(***************************************************************************)
NoHref == <<0, 0>>

Stale == <<0, 1>>

\* urljoin(self.BASE_URL, href) (line 177)
urljoin(href) == <<href[1], href[2]>>

RECURSIVE DedupFrom_unseen(_, _)
DedupFrom_unseen(hrefs, seen) ==
    IF hrefs = <<>> THEN <<>>
    ELSE IF Head(hrefs) = Stale \/ Head(hrefs) = NoHref
         THEN DedupFrom_unseen(Tail(hrefs), seen)
         ELSE <<urljoin(Head(hrefs))>> \o DedupFrom_unseen(Tail(hrefs), seen)

\* the loop of lines 171-182 over the anchors left, with the set seen so far
RECURSIVE DedupFrom(_, _)
DedupFrom(hrefs, seen) ==
    IF hrefs = <<>> THEN <<>>
    ELSE IF Head(hrefs) = Stale \/ Head(hrefs) = NoHref
         THEN DedupFrom(Tail(hrefs), seen)
         ELSE IF urljoin(Head(hrefs)) \in seen
              THEN DedupFrom(Tail(hrefs), seen)
              ELSE <<urljoin(Head(hrefs))>>
                   \o DedupFrom(Tail(hrefs), seen \cup {urljoin(Head(hrefs))})

\* lines 168-185: skip empty hrefs, keep the first occurrence of each URL
Dedup(hrefs) == DedupFrom(hrefs, {})

\* the anchor lists a listing page may show at the final read
AnchorLists(p) ==
    { [k \in 1..n |-> <<p, k>>] : n \in 0..MaxUrls }
    \cup { << <<p, 1>>, <<p, 1>>, <<p, 2>> >>, << NoHref, <<p, 1>> >> }

NoUrls_never(u) == FALSE

\* if not urls: (line 509)
NoUrls(u) == Len(u) = 0

\* limit = per_page_limit or len(urls) (line 514)
LimitOf(ppl, u) == IF ppl # 0 THEN ppl ELSE Len(u)

\* urls[:limit] (line 516)
Slice(u, l) == SubSeq(u, 1, Min(l, Len(u)))

\* if len(urls) == 0: (line 545)
UrlsEmpty(u) == Len(u) = 0

\* detail_count > 0 and detail_count % 10 == 0 (line 519)
RestartThreshold == 10
RestartDue(n) == n > 0 /\ n % RestartThreshold = 0

(***************************************************************************)
(* crawl_pages_by_click                                                    *)
(***************************************************************************)
\* the arguments and locals of the call, and the crawler as constructed
CrawlLocals ==
    /\ max_pages \in 0..MaxPages
    /\ per_page_limit \in 0..MaxLimit
    /\ page = 0
    /\ bound = {}
    /\ page_url = 0
    /\ urls = <<>>
    /\ limit = 0
    /\ queue = <<>>
    /\ idx = 0
    /\ details = "None"
    /\ detail_count = 0
    /\ collected = <<>>
    /\ session = Closed
    /\ fault = "none"
    /\ requested = <<>>
    /\ emptyPage = 0
    /\ listed = <<>>
    /\ visits = <<>>
    /\ outcomes = <<>>
    /\ restarts = 0
    /\ loop_end = "none"
    /\ opened_for = <<>>
    /\ teardown_views = {}

CrawlInit == pc = "page_loop" /\ CrawlLocals

\* the current local date of the runs modelled
Today == <<2025, 6, 15>>

PersistIdle ==
    /\ ppc = "off"
    /\ records = <<>>
    /\ store = <<>>
    /\ txn = <<>>
    /\ existing_map = <<>>
    /\ rec_i = 0
    /\ insert_payloads = <<>>
    /\ update_payloads = <<>>
    /\ today = Today
    /\ runs = 0
    /\ store_at_call = <<>>
    /\ inserted_log = <<>>
    /\ store_init = <<>>
    /\ failed_at = "none"

\* fetch_activity_urls is not in progress
ListOff ==
    /\ lpc = "off"
    /\ dom = <<>>
    /\ prev_count = -1
    /\ stable_count = 0
    /\ taken = 0
    /\ anchors = <<>>
    /\ found = <<>>
    /\ final_dom = <<>>
    /\ run_len = 0
    /\ matched = 0

\* no detail page is being read
FieldsOff ==
    /\ fpc = "off"
    /\ result = <<>>
    /\ field_hits = {}

\* the configuration is complete and persistence is not skipped
EnvSet ==
    /\ env_ok = TRUE
    /\ skip_db = FALSE

Init == CrawlInit /\ PersistIdle /\ ListOff /\ FieldsOff /\ EnvSet

MorePages_one_more(p, m) == p <= m

\* for page in range(1, max_pages + 1) (line 482): p pages were taken so far
MorePages(p, m) == p < m

\* lines 482-492: next page index, start(), page_url, driver.get(page_url);
\* when range(1, max_pages + 1) is exhausted the detail loop follows
PageLoop ==
    /\ pc = "page_loop"
    /\ IF MorePages(page, max_pages)
       THEN /\ page' = page + 1
            /\ page_url' = page + 1
            /\ bound' = bound \cup {"page_url"}
            /\ requested' = Append(requested, page + 1)
            /\ opened_for' = Append(opened_for,
                                    IF session.driver = "None" THEN "fresh" ELSE "reused")
            /\ \E r \in {"ok", "fault"} :
                  IF r = "ok"
                  THEN /\ session' = show(start(session), "listing")
                       /\ pc' = "page_wait"
                       /\ fault' = fault
                  ELSE /\ session' = start(session)
                       /\ pc' = "raised"
                       /\ fault' = "WebDriverException"
            /\ loop_end' = loop_end
       ELSE /\ pc' = "detail_loop"
            /\ loop_end' = "exhausted"
            /\ UNCHANGED <<page, page_url, bound, requested, session, fault, opened_for>>
    /\ UNCHANGED <<max_pages, per_page_limit, urls, limit, queue, idx, details,
                   detail_count, collected, emptyPage, listed, visits, outcomes,
                   restarts, teardown_views, persistVars, otherVars>>

\* lines 494-503: wait for div.list-body; on TimeoutException stop() and break
PageWait ==
    /\ pc = "page_wait"
    /\ \E r \in {"ok", "timeout", "fault"} :
          CASE r = "ok" ->
                 /\ pc' = "fetch_urls"
                 /\ UNCHANGED <<session, fault, loop_end, teardown_views>>
            [] r = "timeout" ->
                 /\ session' = stop(session)
                 /\ teardown_views' = teardown_views \cup Torn(session)
                 /\ pc' = "detail_loop"
                 /\ loop_end' = "timeout"
                 /\ fault' = fault
            [] OTHER ->
                 /\ pc' = "raised"
                 /\ fault' = "WebDriverException"
                 /\ UNCHANGED <<session, loop_end, teardown_views>>
    /\ UNCHANGED <<max_pages, per_page_limit, page, bound, page_url, urls, limit,
                   queue, idx, details, detail_count, collected, requested,
                   emptyPage, listed, visits, outcomes, restarts, opened_for,
                   persistVars, otherVars>>

\* what the page loop does with the result u of fetch_activity_urls (lines 508-514)
TakeListing(u) ==
    /\ urls' = u
    /\ emptyPage' = IF Len(u) = 0 /\ emptyPage = 0 THEN page ELSE emptyPage
    /\ listed' = listed \o Slice(u, LimitOf(per_page_limit, u))
    /\ IF NoUrls(u)
       THEN /\ session' = stop(session)
            /\ teardown_views' = teardown_views \cup Torn(session)
            /\ pc' = "detail_loop"
            /\ loop_end' = "empty"
            /\ bound' = bound \cup {"urls"}
            /\ limit' = limit
       ELSE /\ limit' = LimitOf(per_page_limit, u)
            /\ bound' = bound \cup {"urls", "limit"}
            /\ pc' = "page_loop"
            /\ UNCHANGED <<session, loop_end, teardown_views>>

\* lines 122-185 and 508-514: fetch_activity_urls() and the test of its result
FetchUrls ==
    /\ pc = "fetch_urls"
    /\ \E r \in {"ok", "timeout", "fault"} :
          CASE r = "ok" ->
                 /\ \E a \in AnchorLists(page) : TakeListing(Dedup(a))
                 /\ fault' = fault
            [] r = "timeout" ->
                 /\ TakeListing(<<>>)
                 /\ fault' = fault
            [] OTHER ->
                 /\ pc' = "raised"
                 /\ fault' = "WebDriverException"
                 /\ UNCHANGED <<urls, session, emptyPage, bound, limit, listed, loop_end,
                                teardown_views>>
    /\ UNCHANGED <<max_pages, per_page_limit, page, page_url, queue, idx, details,
                   detail_count, collected, requested, visits, outcomes, restarts,
                   opened_for, persistVars, otherVars>>

\* line 516: enumerate(urls[:limit]) reads urls and limit
DetailLoop ==
    /\ pc = "detail_loop"
    /\ IF {"urls", "limit"} \subseteq bound
       THEN /\ queue' = Slice(urls, limit)
            /\ pc' = "detail_iter"
            /\ fault' = fault
       ELSE /\ queue' = queue
            /\ pc' = "raised"
            /\ fault' = "UnboundLocalError"
    /\ idx' = 0
    /\ UNCHANGED <<max_pages, per_page_limit, page, bound, page_url, urls, limit,
                   details, detail_count, collected, session, requested, emptyPage,
                   listed, visits, outcomes, restarts, loop_end, opened_for,
                   teardown_views, persistVars, otherVars>>

\* lines 516-527: next item of the detail loop, with the preventive restart;
\* line 548 when the items are exhausted
DetailIter ==
    /\ pc = "detail_iter"
    /\ IF idx < Len(queue)
       THEN /\ idx' = idx + 1
            /\ IF RestartDue(detail_count)
               THEN /\ restarts' = restarts + 1
                    /\ requested' = Append(requested, page_url)
                    /\ opened_for' = Append(opened_for, "fresh")
                    /\ teardown_views' = teardown_views \cup Torn(session)
                    /\ \E r \in {"ok", "fault"} :
                          IF r = "ok"
                          THEN /\ session' = show(start(stop(session)), "listing")
                               /\ pc' = "detail_visit"
                               /\ fault' = fault
                          ELSE /\ session' = start(stop(session))
                               /\ pc' = "raised"
                               /\ fault' = "WebDriverException"
               ELSE /\ pc' = "detail_visit"
                    /\ UNCHANGED <<restarts, requested, session, fault, opened_for,
                                   teardown_views>>
       ELSE /\ pc' = "returned"
            /\ UNCHANGED <<idx, restarts, requested, session, fault, opened_for,
                           teardown_views>>
    /\ UNCHANGED <<max_pages, per_page_limit, page, bound, page_url, urls, limit,
                   queue, details, detail_count, collected, emptyPage, listed,
                   visits, outcomes, loop_end, persistVars, otherVars>>

\* lines 187-380: fetch_activity_details(url).  driver is the browser self.driver
\* referred to at entry: the handlers restart self.driver, the finally clause
\* navigates the browser of entry to about:blank
DetailVisit ==
    /\ pc = "detail_visit"
    /\ visits' = Append(visits, queue[idx])
    /\ IF session.driver = "None"
       THEN \* driver is None: driver.get raises AttributeError, which no handler takes
            /\ outcomes' = Append(outcomes, "raise")
            /\ pc' = "raised"
            /\ fault' = "AttributeError"
            /\ UNCHANGED <<session, details, teardown_views>>
       ELSE \E r \in {"ok", "timeout", "crash"} :
            /\ outcomes' = Append(outcomes, r)
            /\ pc' = "detail_after"
            /\ fault' = fault
            /\ IF r = "ok"
               THEN /\ details' = "record"
                    /\ session' = show(show(session, "detail"), "blank")
                    /\ teardown_views' = teardown_views
               ELSE \* the handler quits the browser while it shows the detail
                    \* page; about:blank then goes to the browser that was quit
                    /\ details' = "None"
                    /\ session' = start(stop(show(session, "detail")))
                    /\ teardown_views' =
                          teardown_views \cup Torn(show(session, "detail"))
    /\ UNCHANGED <<max_pages, per_page_limit, page, bound, page_url, urls, limit,
                   queue, idx, detail_count, collected, requested, emptyPage, listed,
                   restarts, loop_end, opened_for, persistVars, otherVars>>

\* lines 531-546: count the visit, keep the record, stop(), test len(urls)
DetailAfter ==
    /\ pc = "detail_after"
    /\ detail_count' = detail_count + 1
    /\ collected' = IF details = "record" THEN Append(collected, queue[idx])
                    ELSE collected
    /\ session' = stop(session)
    /\ teardown_views' = teardown_views \cup Torn(session)
    /\ pc' = IF UrlsEmpty(urls) THEN "returned" ELSE "detail_iter"
    /\ UNCHANGED <<max_pages, per_page_limit, page, bound, page_url, urls, limit,
                   queue, idx, details, fault, requested, emptyPage, listed, visits,
                   outcomes, restarts, loop_end, opened_for, persistVars, otherVars>>

Next ==
    \/ PageLoop
    \/ PageWait
    \/ FetchUrls
    \/ DetailLoop
    \/ DetailIter
    \/ DetailVisit
    \/ DetailAfter

Spec == Init /\ [][Next]_vars

(***************************************************************************)
(* persist_contests_to_rds.  A string that is None or empty is "" (both    *)
(* are falsy wherever the code tests them).  A date text is the record     *)
(* [sep, y, m, d] of what stands between its separators; a views text is   *)
(* the sequence of its characters.                                         *)
(***************************************************************************)
MaxBatch == 2
MaxRuns == 2

NoText == [sep |-> "", y |-> 0, m |-> 0, d |-> 0]
DateText(sep, y, m, d) == [sep |-> sep, y |-> y, m |-> m, d |-> d]

NoDate == <<>>

IsLeap(y) == (y % 4 = 0 /\ y % 100 # 0) \/ y % 400 = 0

DaysIn(y, m) ==
    IF m = 2 THEN (IF IsLeap(y) THEN 29 ELSE 28)
    ELSE IF m \in {4, 6, 9, 11} THEN 30 ELSE 31

\* _parse_date: None for a falsy text, the date for a text of the form
\* %Y.%m.%d that names a day of the calendar, None (ValueError) otherwise
_parse_date(t) ==
    IF t = NoText THEN NoDate
    ELSE IF t.sep = "." /\ t.y \in 1..9999 /\ t.m \in 1..12 /\ t.d \in 1..DaysIn(t.y, t.m)
         THEN <<t.y, t.m, t.d>>
         ELSE NoDate

\* date < date
DateBefore(a, b) ==
    \/ a[1] < b[1]
    \/ a[1] = b[1] /\ a[2] < b[2]
    \/ a[1] = b[1] /\ a[2] = b[2] /\ a[3] < b[3]

Digits == {"0", "1", "2", "3", "4", "5", "6", "7", "8", "9"}

DigitVal(c) ==
    CASE c = "0" -> 0 [] c = "1" -> 1 [] c = "2" -> 2 [] c = "3" -> 3
      [] c = "4" -> 4 [] c = "5" -> 5 [] c = "6" -> 6 [] c = "7" -> 7
      [] c = "8" -> 8 [] OTHER -> 9

\* int(text) raises ValueError unless the text is a numeral
IsNumeral(t) == t # <<>> /\ \A i \in DOMAIN t : t[i] \in Digits

RECURSIVE IntOf(_)
IntOf(t) ==
    IF t = <<>> THEN 0
    ELSE IntOf(SubSeq(t, 1, Len(t) - 1)) * 10 + DigitVal(t[Len(t)])

\* int(record.get("views") or 0) (line 652): defined when ViewsOk
ViewsOk(t) == t = <<>> \/ IsNumeral(t)
ViewsOf(t) == IF t = <<>> THEN 0 ELSE IntOf(t)

\* a or b on strings
OrElse(a, b) == IF a # "" THEN a ELSE b

\* record.get("activity_url") or record.get("detail_url") (line 647)
SiteUrlOf(rec) == OrElse(rec.activity_url, rec.detail_url)

\* record.get("organization_name") or title or "정보없음" (line 649)
OrganizationOf(rec) ==
    OrElse(rec.organization_name, OrElse(rec.activity_title, "no-info"))

Valid_title_unchecked(start_date, end_date, image_url, site_url, title) ==
    start_date # NoDate /\ end_date # NoDate /\ image_url # "" /\ site_url # ""

\* start_date and end_date and image_url and site_url and title (line 654)
Valid(start_date, end_date, image_url, site_url, title) ==
    start_date # NoDate /\ end_date # NoDate /\ image_url # "" /\ site_url # ""
    /\ title # ""

KeyOf(row) == <<row.name, row.organization_name>>

Max(S) == CHOOSE x \in S : \A y \in S : y <= x

\* existing_map (lines 612-618): (name, organization_name) -> id; of several
\* rows with one key the dict keeps the one fetched last
ExistingMap(rows) ==
    LET keys == { KeyOf(rows[i]) : i \in DOMAIN rows }
    IN  [k \in keys |-> rows[Max({ i \in DOMAIN rows : KeyOf(rows[i]) = k })].id]

\* the tuple appended to insert_payloads (lines 669-685); src is the position
\* of the record in the batch
InsertPayload(rec, i) ==
    [src |-> i,
     name |-> rec.activity_title,
     organization_name |-> OrganizationOf(rec),
     start_date |-> _parse_date(rec.start_date),
     end_date |-> _parse_date(rec.end_date),
     image_url |-> rec.activity_img,
     site_url |-> SiteUrlOf(rec),
     views |-> ViewsOf(rec.views)]

\* the tuple appended to update_payloads (line 667)
UpdatePayload(rec, i, id) ==
    [src |-> i,
     start_date |-> _parse_date(rec.start_date),
     end_date |-> _parse_date(rec.end_date),
     views |-> ViewsOf(rec.views),
     id |-> id]

NextId(rows) == IF rows = <<>> THEN 1 ELSE Max({ rows[i].id : i \in DOMAIN rows }) + 1

RowOf(p, id) ==
    [id |-> id, name |-> p.name, organization_name |-> p.organization_name,
     start_date |-> p.start_date, end_date |-> p.end_date,
     image_url |-> p.image_url, site_url |-> p.site_url, views |-> p.views]

\* cursor.executemany(insert_sql, insert_payloads) (lines 625-630, 691)
ExecInserts(rows, payloads) ==
    rows \o [i \in DOMAIN payloads |-> RowOf(payloads[i], NextId(rows) + i - 1)]

ExecUpdates_no_where(rows, payloads) ==
    [i \in DOMAIN rows |->
        [rows[i] EXCEPT !.start_date = payloads[Len(payloads)].start_date,
                        !.end_date = payloads[Len(payloads)].end_date,
                        !.views = payloads[Len(payloads)].views]]

\* cursor.executemany(update_sql, update_payloads) (lines 632-638, 698)
ExecUpdates(rows, payloads) ==
    [i \in DOMAIN rows |->
        LET hits == { j \in DOMAIN payloads : payloads[j].id = rows[i].id }
        IN  IF hits = {} THEN rows[i]
            ELSE [rows[i] EXCEPT !.start_date = payloads[Max(hits)].start_date,
                                 !.end_date = payloads[Max(hits)].end_date,
                                 !.views = payloads[Max(hits)].views]]

Rollback_keeps_writes(durable, seen) == seen

\* autocommit=False and "with connection:" (lines 596-606): leaving the block
\* without commit() closes the connection and the server discards what the
\* transaction wrote
Rollback(durable, seen) == durable

\* ---- the batches and stores the reconciliation is run on ----
Past == DateText(".", 2020, 1, 1)
Future == DateText(".", 2030, 12, 31)

Rec(t, o, s, e, img, site, detail, v) ==
    [activity_title |-> t, organization_name |-> o, start_date |-> s,
     end_date |-> e, activity_img |-> img, activity_url |-> site,
     detail_url |-> detail, views |-> v]

GoodRecords ==
    { Rec(t, o, Past, e, "img", "site", "detail", <<"7">>) :
        t \in {"A", "B"}, o \in {"", "X"}, e \in {Past, Future} }
    \cup { Rec("A", "X", Past, Future, "img", "", "detail", <<"1", "2">>),
           Rec("A", "X", Past, Future, "img", "site", "detail", <<>>) }

DefectRecords ==
    { Rec("", "X", Past, Future, "img", "site", "detail", <<"7">>),
      Rec("A", "X", NoText, Future, "img", "site", "detail", <<"7">>),
      Rec("A", "X", DateText("-", 2020, 1, 1), Future, "img", "site", "detail", <<"7">>),
      Rec("A", "X", Past, NoText, "img", "site", "detail", <<"7">>),
      Rec("A", "X", Past, DateText(".", 2030, 2, 30), "img", "site", "detail", <<"7">>),
      Rec("A", "X", Past, Future, "", "site", "detail", <<"7">>),
      Rec("A", "X", Past, Future, "img", "", "", <<"7">>),
      Rec("A", "X", Past, Future, "img", "site", "detail", <<"1", ",", "2">>) }

RecordSpace == GoodRecords \cup DefectRecords

Batches == UNION { [1..n -> RecordSpace] : n \in 0..MaxBatch }

Row(id, n, o, e) ==
    [id |-> id, name |-> n, organization_name |-> o, start_date |-> <<2019, 1, 1>>,
     end_date |-> e, image_url |-> "img0", site_url |-> "site0", views |-> 1]

Stores ==
    { <<>>,
      << Row(1, "A", "X", <<2020, 1, 1>>) >>,
      << Row(1, "A", "X", <<2030, 12, 31>>), Row(3, "B", "B", <<2031, 1, 1>>) >> }

CrawlOff ==
    /\ pc = "off"
    /\ max_pages = 0
    /\ per_page_limit = 0
    /\ page = 0
    /\ bound = {}
    /\ page_url = 0
    /\ urls = <<>>
    /\ limit = 0
    /\ queue = <<>>
    /\ idx = 0
    /\ details = "None"
    /\ detail_count = 0
    /\ collected = <<>>
    /\ session = Closed
    /\ fault = "none"
    /\ requested = <<>>
    /\ emptyPage = 0
    /\ listed = <<>>
    /\ visits = <<>>
    /\ outcomes = <<>>
    /\ restarts = 0
    /\ loop_end = "none"
    /\ opened_for = <<>>
    /\ teardown_views = {}

PersistInit ==
    /\ ppc = "idle"
    /\ records \in Batches
    /\ store \in Stores
    /\ txn = <<>>
    /\ existing_map = <<>>
    /\ rec_i = 0
    /\ insert_payloads = <<>>
    /\ update_payloads = <<>>
    /\ today = Today
    /\ runs = 0
    /\ store_at_call = store
    /\ store_init = store
    /\ inserted_log = <<>>
    /\ failed_at = "none"

\* a step of the call fails (PersistenceFailure): the with-block is left
Fails(step) ==
    /\ ppc' = "failed"
    /\ failed_at' = step
    /\ store' = Rollback(store, txn)
    /\ txn' = <<>>

\* lines 583-604: nothing to do for no records, else connect
PersistCall ==
    /\ ppc = "idle"
    /\ IF records = <<>>
       THEN /\ ppc' = "returned"
            /\ UNCHANGED <<store, txn, failed_at>>
       ELSE IF ~env_ok
            THEN \* _get_required_env raises RuntimeError (lines 588-592)
                 /\ ppc' = "config_error"
                 /\ UNCHANGED <<store, txn, failed_at>>
            ELSE \E ok \in BOOLEAN :
                    IF ok
                    THEN /\ ppc' = "connected"
                         /\ txn' = store
                         /\ UNCHANGED <<store, failed_at>>
                    ELSE Fails("connect")
    /\ store_at_call' = store
    /\ UNCHANGED <<records, existing_map, rec_i, insert_payloads, update_payloads,
                   today, runs, store_init, inserted_log, crawlVars, otherVars>>

\* lines 612-641: SELECT, existing_map, empty payload lists
LoadExisting ==
    /\ ppc = "connected"
    /\ \E ok \in BOOLEAN :
          IF ok
          THEN /\ ppc' = "staging"
               /\ existing_map' = ExistingMap(txn)
               /\ UNCHANGED <<store, txn, failed_at>>
          ELSE /\ Fails("load")
               /\ existing_map' = existing_map
    /\ rec_i' = 0
    /\ insert_payloads' = <<>>
    /\ update_payloads' = <<>>
    /\ UNCHANGED <<records, today, runs, store_at_call, store_init, inserted_log,
                   crawlVars, otherVars>>

\* lines 643-685: one iteration of the loop over records
StageRecord ==
    /\ ppc = "staging"
    /\ rec_i < Len(records)
    /\ LET i == rec_i + 1
           rec == records[i]
           key == <<rec.activity_title, OrganizationOf(rec)>>
       IN  IF ~ViewsOk(rec.views)
           THEN \* int() raises ValueError, which leaves the with-block
                /\ ppc' = "raised"
                /\ store' = Rollback(store, txn)
                /\ txn' = <<>>
                /\ UNCHANGED <<rec_i, insert_payloads, update_payloads>>
           ELSE /\ rec_i' = i
                /\ UNCHANGED <<ppc, store, txn>>
                /\ IF ~Valid(_parse_date(rec.start_date), _parse_date(rec.end_date),
                             rec.activity_img, SiteUrlOf(rec), rec.activity_title)
                   THEN UNCHANGED <<insert_payloads, update_payloads>>
                   ELSE IF key \in DOMAIN existing_map
                        THEN /\ update_payloads' =
                                  Append(update_payloads,
                                         UpdatePayload(rec, i, existing_map[key]))
                             /\ insert_payloads' = insert_payloads
                        ELSE /\ insert_payloads' =
                                  Append(insert_payloads, InsertPayload(rec, i))
                             /\ update_payloads' = update_payloads
    /\ UNCHANGED <<records, existing_map, today, runs, store_at_call, store_init,
                   inserted_log, failed_at, crawlVars, otherVars>>

\* lines 690-692: executemany of the inserts, when there are any
ApplyInserts ==
    /\ ppc = "staging"
    /\ rec_i = Len(records)
    /\ IF insert_payloads = <<>>
       THEN /\ ppc' = "inserted"
            /\ UNCHANGED <<store, txn, failed_at>>
       ELSE \E ok \in BOOLEAN :
               IF ok
               THEN /\ ppc' = "inserted"
                    /\ txn' = ExecInserts(txn, insert_payloads)
                    /\ UNCHANGED <<store, failed_at>>
               ELSE Fails("insert")
    /\ UNCHANGED <<records, existing_map, rec_i, insert_payloads, update_payloads,
                   today, runs, store_at_call, store_init, inserted_log, crawlVars, otherVars>>

\* lines 697-699: executemany of the updates, when there are any
ApplyUpdates ==
    /\ ppc = "inserted"
    /\ IF update_payloads = <<>>
       THEN /\ ppc' = "updated"
            /\ UNCHANGED <<store, txn, failed_at>>
       ELSE \E ok \in BOOLEAN :
               IF ok
               THEN /\ ppc' = "updated"
                    /\ txn' = ExecUpdates(txn, update_payloads)
                    /\ UNCHANGED <<store, failed_at>>
               ELSE Fails("update")
    /\ UNCHANGED <<records, existing_map, rec_i, insert_payloads, update_payloads,
                   today, runs, store_at_call, store_init, inserted_log, crawlVars, otherVars>>

\* line 701: connection.commit()
Commit ==
    /\ ppc = "updated"
    /\ \E ok \in BOOLEAN :
          IF ok
          THEN /\ ppc' = "committed"
               /\ store' = txn
               /\ runs' = runs + 1
               /\ inserted_log' = Append(inserted_log, Len(insert_payloads))
               /\ UNCHANGED <<txn, failed_at>>
          ELSE /\ Fails("commit")
               /\ UNCHANGED <<runs, inserted_log>>
    /\ UNCHANGED <<records, existing_map, rec_i, insert_payloads, update_payloads,
                   today, store_at_call, store_init, crawlVars, otherVars>>

\* the next run of the program reconciles the same batch again
PersistAgain ==
    /\ ppc = "committed"
    /\ runs < MaxRuns
    /\ ppc' = "idle"
    /\ UNCHANGED <<records, store, txn, existing_map, rec_i, insert_payloads,
                   update_payloads, today, runs, store_at_call, store_init,
                   inserted_log, failed_at, crawlVars, otherVars>>

PersistNext ==
    \/ PersistCall
    \/ LoadExisting
    \/ StageRecord
    \/ ApplyInserts
    \/ ApplyUpdates
    \/ Commit
    \/ PersistAgain

PersistStart ==
    CrawlOff /\ PersistInit /\ ListOff /\ FieldsOff /\ env_ok \in BOOLEAN /\ skip_db = FALSE

PersistSpec == PersistStart /\ [][PersistNext]_vars

Exited == pc \in {"returned", "raised"}

(***************************************************************************)
(* main: the crawl, then the reconciliation of what it collected           *)
(***************************************************************************)
\* the records a crawl may hand over: each carries its detail_url
CrawledRecords == { r \in RecordSpace : r.detail_url # "" }

MainInit ==
    /\ pc = "main"
    /\ CrawlLocals
    /\ PersistIdle
    /\ ListOff
    /\ FieldsOff
    /\ env_ok \in BOOLEAN
    /\ skip_db \in BOOLEAN

\* lines 705-713: the limits are read, the crawler is built, the crawl is called
MainCrawl ==
    /\ pc = "main"
    /\ pc' = "page_loop"
    /\ UNCHANGED <<max_pages, per_page_limit, page, bound, page_url, urls, limit,
                   queue, idx, details, detail_count, collected, session, fault,
                   requested, emptyPage, listed, visits, outcomes, restarts,
                   loop_end, opened_for, teardown_views, persistVars, otherVars>>

\* lines 717-725: SKIP_DB_WRITE ends the run, else the records are persisted
MainFinish ==
    /\ pc = "returned"
    /\ ppc = "off"
    /\ IF skip_db
       THEN /\ ppc' = "skipped"
            /\ records' = records
       ELSE /\ ppc' = "idle"
            /\ records' \in [DOMAIN collected -> CrawledRecords]
    /\ UNCHANGED <<store, txn, existing_map, rec_i, insert_payloads, update_payloads,
                   today, runs, store_at_call, inserted_log, store_init, failed_at,
                   crawlVars, otherVars>>

MainNext ==
    \/ MainCrawl
    \/ Next
    \/ MainFinish
    \/ PersistCall
    \/ LoadExisting
    \/ StageRecord
    \/ ApplyInserts
    \/ ApplyUpdates
    \/ Commit

MainSpec == MainInit /\ [][MainNext]_vars

(***************************************************************************)
(* Properties of the crawl                                                 *)
(***************************************************************************)

\* C1: when crawl_pages_by_click returns, every URL of every non-empty listing
\* (truncated to the per-page limit) has been passed to fetch_activity_details
\* exactly once, and no more records are returned than URLs were listed
C1_EveryListedUrlVisitedOnce ==
    pc = "returned" => (visits = listed /\ Len(collected) <= Len(listed))

\* C2: listing pages are requested in the order 1, 2, 3, ..., none beyond
\* max_pages, and none beyond the first page whose listing result was empty
C2_PagesInOrderUntilEmpty ==
    /\ \A i \in DOMAIN requested : requested[i] \in 1..max_pages
    /\ requested # <<>> => requested[1] = 1
    /\ \A i \in 1..(Len(requested) - 1) :
          requested[i + 1] \in {requested[i], requested[i] + 1}
    /\ emptyPage # 0 => \A i \in DOMAIN requested : requested[i] <= emptyPage

\* C2 witness: the crawl has ended after an empty page that was not the last
\* page max_pages allows
C2_Witness ==
    /\ Exited
    /\ emptyPage > 1
    /\ emptyPage < max_pages
    /\ requested = [i \in 1..emptyPage |-> i]

\* C3: a crawl whose browser operations all succeed restarts the session once
\* before each of the visits 11, 21, ...: with n URLs queued it has performed
\* (n - 1) \div 10 preventive restarts when it ends
C3_RestartEveryTenVisits ==
    (Exited /\ loop_end = "exhausted" /\ fault # "WebDriverException" /\ queue # <<>>
        /\ \A i \in DOMAIN outcomes : outcomes[i] \in {"ok", "raise"})
    => restarts = (Len(queue) - 1) \div RestartThreshold

\* C4: after a detail visit that ended in a timeout or a crash, the next queued
\* URL is visited on an open session (the visit does not find self.driver None)
C4_ContinuesAfterFailedVisit ==
    \A i \in DOMAIN outcomes :
        (outcomes[i] \in {"timeout", "crash"} /\ i < Len(outcomes))
        => outcomes[i + 1] # "raise"

\* C5: on every exit of crawl_pages_by_click the session is closed
C5_ClosedOnEveryExit ==
    Exited => session.driver = "None"

(***************************************************************************)
(* Properties of the reconciliation                                        *)
(***************************************************************************)
KeysUnique(rows) ==
    \A i, j \in DOMAIN rows : KeyOf(rows[i]) = KeyOf(rows[j]) => i = j

Ids(rows) == { rows[i].id : i \in DOMAIN rows }

\* the claim's notion of a record that misses none of title, startDate,
\* endDate, imageUrl and siteUrl
HasAllRequired(rec) ==
    /\ rec.activity_title # ""
    /\ _parse_date(rec.start_date) \in (1..9999) \X (1..12) \X (1..31)
    /\ _parse_date(rec.end_date) \in (1..9999) \X (1..12) \X (1..31)
    /\ rec.activity_img # ""
    /\ (rec.activity_url # "" \/ rec.detail_url # "")

ValidBatch ==
    \A i \in DOMAIN records : HasAllRequired(records[i]) /\ ViewsOk(records[i].views)

DistinctKeys ==
    { <<records[i].activity_title, OrganizationOf(records[i])>> : i \in DOMAIN records }

\* C6: a row is never inserted under a (name, organization_name) key that a
\* persisted row or another row inserted by the same run has: the rows handed
\* to INSERT have keys distinct from each other and from the persisted ones,
\* and the store never holds two rows with one key
C6_NoDuplicateKeyInserted ==
    /\ KeysUnique(store)
    /\ \A k \in DOMAIN insert_payloads :
          /\ \A i \in DOMAIN store_at_call :
                KeyOf(insert_payloads[k]) # KeyOf(store_at_call[i])
          /\ \A j \in DOMAIN insert_payloads :
                KeyOf(insert_payloads[k]) = KeyOf(insert_payloads[j]) => k = j

\* C7: after the same valid batch has been reconciled twice from an empty
\* store, the second run inserted nothing and the store holds one row per
\* distinct key of the batch, as many as the first run inserted
C7_SecondRunOnlyUpdates ==
    (runs = 2 /\ store_init = <<>> /\ ValidBatch)
    => /\ inserted_log[2] = 0
       /\ Len(store) = Cardinality(DistinctKeys)
       /\ inserted_log[1] = Cardinality(DistinctKeys)

\* C8: a committed run has removed every row that was persisted when it began
\* and whose end_date precedes the current local date
C8_ExpiredRowsRemoved ==
    ppc = "committed"
    => \A i \in DOMAIN store_at_call :
          DateBefore(store_at_call[i].end_date, today)
          => store_at_call[i].id \notin Ids(store)

C10_FailureLeavesStore ==
    ppc \in {"failed", "raised"} => store = store_at_call

\* C10 witness: the call failed after rows had been written in the transaction
C10_Witness ==
    /\ ppc = "failed"
    /\ failed_at \in {"update", "commit"}
    /\ insert_payloads # <<>>
    /\ store = store_at_call

(***************************************************************************)
(* fetch_activity_urls on its own: the wait for the list body, the         *)
(* stabilization loop and the parse of the anchors, while the page goes on *)
(* rendering.  The browser session is the caller's and is left out here.   *)
(***************************************************************************)
MaxAnchors == 7

\* range(20) (line 144)
StabilizationBound == 20

\* if stable_count >= 3 (line 155)
StableNeeded == 3

\* the counts of the scenario: 3, 5, 5, 5, 7
Script13 == <<3, 5, 5, 5, 7>>

\* the anchor lists the list body may show at some moment
DomLists ==
    { [k \in 1..n |-> <<1, k>>] : n \in 0..MaxAnchors }
    \cup { [k \in 1..n |-> <<1, n + 1 - k>>] : n \in {3, 5} }
    \cup { << <<1, 2>>, <<1, 1, "rel">>, <<1, 2, "rel">>, NoHref, <<1, 1>> >>,
           << Stale, <<1, 3>>, <<1, 3>> >>,
           << NoHref, Stale >> }

NextStable_kept(sc, curr, prev) == IF curr = prev THEN sc + 1 ELSE sc

\* lines 150-153
NextStable(sc, curr, prev) == IF curr = prev THEN sc + 1 ELSE 0

Stable_two(sc) == sc >= StableNeeded - 1

\* line 155
Stable(sc) == sc >= StableNeeded

\* fetch_activity_urls is entered on a loaded listing page
ListInit ==
    /\ lpc = "wait"
    /\ dom \in DomLists
    /\ prev_count = -1
    /\ stable_count = 0
    /\ taken = 0
    /\ anchors = <<>>
    /\ found = <<>>
    /\ final_dom = <<>>
    /\ run_len = 0
    /\ matched = 0

ListStart ==
    CrawlOff /\ PersistIdle /\ ListInit /\ FieldsOff /\ EnvSet

\* wait.until(presence of div.list-body) (lines 133-139)
ListWait ==
    /\ lpc = "wait"
    /\ \E r \in {"ok", "timeout", "fault"} :
         CASE r = "ok" -> lpc' = "sampling" /\ found' = found
           [] r = "timeout" -> lpc' = "returned" /\ found' = <<>>
           [] r = "fault" -> lpc' = "raised" /\ found' = found
    /\ UNCHANGED <<dom, prev_count, stable_count, taken, anchors, final_dom, run_len,
                   matched, crawlVars, persistVars, fieldVars, envVars>>

\* the page script adds, removes or replaces anchors while the call runs
Render ==
    /\ lpc \in {"wait", "sampling", "parse"}
    /\ \E d \in DomLists \ {dom} : dom' = d
    /\ UNCHANGED <<lpc, prev_count, stable_count, taken, anchors, found, final_dom,
                   run_len, matched, crawlVars, persistVars, fieldVars, envVars>>

\* one iteration of the stabilization loop (lines 144-159)
Sample ==
    /\ lpc = "sampling"
    /\ taken < StabilizationBound
    /\ \E r \in {"ok", "fault"} :
         IF r = "fault"
         THEN /\ lpc' = "raised"
              /\ UNCHANGED <<prev_count, stable_count, taken, anchors, final_dom,
                             run_len, matched>>
         ELSE LET curr_count == Len(dom)
                  sc == NextStable(stable_count, curr_count, prev_count)
              IN  /\ anchors' = dom
                  /\ stable_count' = sc
                  /\ taken' = taken + 1
                  /\ final_dom' = dom
                  /\ run_len' = IF taken > 0 /\ curr_count = Len(final_dom)
                                 THEN run_len + 1 ELSE 1
                  /\ matched' = IF /\ matched = taken
                                    /\ taken < Len(Script13)
                                    /\ curr_count = Script13[taken + 1]
                                 THEN matched + 1 ELSE matched
                  /\ IF Stable(sc)
                     THEN lpc' = "parse" /\ prev_count' = prev_count
                     ELSE /\ prev_count' = curr_count
                          /\ lpc' = IF taken + 1 = StabilizationBound
                                     THEN "parse" ELSE "sampling"
    /\ UNCHANGED <<dom, found, crawlVars, persistVars, fieldVars, envVars>>

\* the anchors are read again and parsed (lines 162-185)
Parse ==
    /\ lpc = "parse"
    /\ \E r \in {"ok", "fault"} :
         IF r = "fault"
         THEN lpc' = "raised" /\ UNCHANGED <<anchors, found>>
         ELSE /\ anchors' = dom
              /\ found' = Dedup(dom)
              /\ lpc' = "returned"
    /\ UNCHANGED <<dom, prev_count, stable_count, taken, final_dom, run_len, matched,
                   crawlVars, persistVars, fieldVars, envVars>>

ListNext == ListWait \/ Render \/ Sample \/ Parse

ListSpec == ListStart /\ [][ListNext]_vars

\* the anchors whose href could be read and is not empty
RECURSIVE Readable(_)
Readable(a) ==
    IF a = <<>> THEN <<>>
    ELSE IF Head(a) = Stale \/ Head(a) = NoHref
         THEN Readable(Tail(a))
         ELSE <<Head(a)>> \o Readable(Tail(a))

\* the position of the first anchor of a that resolves to URL u
FirstAt(a, u) ==
    CHOOSE k \in DOMAIN a :
        /\ urljoin(a[k]) = u
        /\ \A m \in 1..(k - 1) : urljoin(a[m]) # u

(***************************************************************************)
(* C11: for a listing whose anchors repeat a detail URL,                   *)
(* fetch_activity_urls returns each distinct resolved URL exactly once, in *)
(* the order of its first occurrence among the anchors.                    *)
(***************************************************************************)
C11_DistinctUrlsInFirstSeenOrder ==
    lpc = "returned" =>
        LET a == Readable(anchors)
        IN  /\ \A i, j \in DOMAIN found : found[i] = found[j] => i = j
            /\ { found[i] : i \in DOMAIN found } = { urljoin(a[k]) : k \in DOMAIN a }
            /\ \A i, j \in DOMAIN found :
                   i < j => FirstAt(a, found[i]) < FirstAt(a, found[j])

C11_Witness ==
    /\ lpc = "returned"
    /\ Len(found) >= 2
    /\ \E i, j \in DOMAIN anchors :
         /\ i < j
         /\ anchors[i] \notin {Stale, NoHref}
         /\ anchors[j] \notin {Stale, NoHref}
         /\ anchors[i] # anchors[j]
         /\ urljoin(anchors[i]) = urljoin(anchors[j])

(***************************************************************************)
(* C12, as the claim states it: polling goes on only while fewer than 3    *)
(* consecutive samples were identical, and an early stop comes with the    *)
(* 3rd identical sample.                                                   *)
(***************************************************************************)
C12_StopsAtThreeEqualSamples ==
    /\ (lpc = "sampling" /\ taken > 0) => run_len < StableNeeded
    /\ (lpc = "parse" /\ taken < StabilizationBound) => run_len = StableNeeded

(***************************************************************************)
(* C12, amended: polling stops early as soon as the count has been         *)
(* identical for 4 consecutive samples (a sample equalled its predecessor  *)
(* 3 times in a row); otherwise it takes all 20 samples.                   *)
(***************************************************************************)
C12_StopsAtFourEqualSamples ==
    /\ taken <= StabilizationBound
    /\ (lpc = "sampling" /\ taken > 0) =>
          (run_len < StableNeeded + 1 /\ taken < StabilizationBound)
    /\ lpc = "parse" => (taken = StabilizationBound \/ run_len = StableNeeded + 1)

C12_Witness ==
    /\ lpc = "parse"
    /\ taken < StabilizationBound
    /\ run_len = StableNeeded + 1

(***************************************************************************)
(* C13: when the sampled counts start 3, 5, 5, 5, 7 the loop stops at none *)
(* of these five samples, and unless later samples meet the stop condition *)
(* it ends only with its 20th iteration.                                   *)
(***************************************************************************)
C13_ScriptDoesNotStopEarly ==
    /\ (matched = taken /\ taken \in 1..Len(Script13)) => lpc \notin {"parse", "returned"}
    /\ (matched = Len(Script13) /\ lpc = "parse" /\ run_len < StableNeeded + 1) =>
          taken = StabilizationBound

C13_Witness ==
    /\ matched = Len(Script13)
    /\ lpc = "parse"
    /\ run_len < StableNeeded + 1
    /\ taken = StabilizationBound

(***************************************************************************)
(* C20: the returned URL list is built from the anchors the final sample   *)
(* of the stabilization loop counted; a later change of the page's anchors *)
(* does not change it.                                                     *)
(***************************************************************************)
C20_ReturnsAnchorsOfFinalSample ==
    (lpc = "returned" /\ taken > 0) => found = Dedup(final_dom)

(***************************************************************************)
(* fetch_activity_details after the page identity element was found: the   *)
(* field rules of lines 204-361, applied in the order of the code.  A      *)
(* value is "None", "text" (a stripped text or an attribute), "" (the      *)
(* empty string), "[]" or "[text]" (a list).                               *)
(***************************************************************************)
Rules ==
    << "activity_title", "activity_url", "activity_category", "start_date",
       "end_date", "activity_img", "award_scale", "benefits",
       "additional_benefits", "target_participants", "company_type", "views",
       "organization_name" >>

Fields == { Rules[i] : i \in DOMAIN Rules }

\* the rules that are one find_element in try / except NoSuchElementException
PlainFields == Fields \ {"activity_category", "activity_img", "additional_benefits"}

\* result = {...} (lines 205-221)
Defaults == [f \in Fields |-> IF f = "activity_category" THEN "[]" ELSE "None"]

\* the position after the rule of field f
AfterRule(f) ==
    LET i == CHOOSE k \in DOMAIN Rules : Rules[k] = f
    IN  IF i = Len(Rules) THEN "return" ELSE Rules[i + 1]

\* ", ".join of the texts of the elements found (lines 319-321)
JoinTexts(n) == IF n = 0 THEN "" ELSE "text"

FieldsInit ==
    /\ fpc = Rules[1]
    /\ result = Defaults
    /\ field_hits = {}

FieldsStart == CrawlOff /\ PersistIdle /\ ListOff /\ FieldsInit /\ EnvSet

\* a rule of the form result[f] = driver.find_element(...).text.strip()
FindElementRule ==
    /\ fpc \in PlainFields
    /\ \E r \in {"found", "absent", "error"} :
         CASE r = "found" ->
                /\ result' = [result EXCEPT ![fpc] = "text"]
                /\ field_hits' = field_hits \cup {fpc}
                /\ fpc' = AfterRule(fpc)
           [] r = "absent" ->
                /\ fpc' = AfterRule(fpc)
                /\ UNCHANGED <<result, field_hits>>
           [] r = "error" ->
                /\ fpc' = "crashed"
                /\ UNCHANGED <<result, field_hits>>
    /\ UNCHANGED <<crawlVars, persistVars, listVars, envVars>>

\* lines 245-259: find_elements, the non-empty texts
CategoryRule ==
    /\ fpc = "activity_category"
    /\ \E r \in {"some", "none", "error"} :
         CASE r = "some" ->
                /\ result' = [result EXCEPT ![fpc] = "[text]"]
                /\ field_hits' = field_hits \cup {fpc}
                /\ fpc' = AfterRule(fpc)
           [] r = "none" ->
                /\ result' = [result EXCEPT ![fpc] = "[]"]
                /\ fpc' = AfterRule(fpc)
                /\ UNCHANGED field_hits
           [] r = "error" ->
                /\ fpc' = "crashed"
                /\ UNCHANGED <<result, field_hits>>
    /\ UNCHANGED <<crawlVars, persistVars, listVars, envVars>>

\* lines 278-290: img.card-image, else div.poster > img
ImageRule ==
    /\ fpc = "activity_img"
    /\ \E r \in {"primary", "fallback", "absent", "error"} :
         CASE r \in {"primary", "fallback"} ->
                /\ result' = [result EXCEPT ![fpc] = "text"]
                /\ field_hits' = field_hits \cup {fpc}
                /\ fpc' = AfterRule(fpc)
           [] r = "absent" ->
                /\ fpc' = AfterRule(fpc)
                /\ UNCHANGED <<result, field_hits>>
           [] r = "error" ->
                /\ fpc' = "crashed"
                /\ UNCHANGED <<result, field_hits>>
    /\ UNCHANGED <<crawlVars, persistVars, listVars, envVars>>

\* lines 312-323: find_elements, then the join of the texts
AdditionalBenefitsRule ==
    /\ fpc = "additional_benefits"
    /\ \E n \in {0, 1}, r \in {"ok", "error"} :
         IF r = "error"
         THEN /\ fpc' = "crashed"
              /\ UNCHANGED <<result, field_hits>>
         ELSE /\ result' = [result EXCEPT ![fpc] = JoinTexts(n)]
              /\ field_hits' = IF n > 0 THEN field_hits \cup {fpc} ELSE field_hits
              /\ fpc' = AfterRule(fpc)
    /\ UNCHANGED <<crawlVars, persistVars, listVars, envVars>>

\* return result (line 361)
ReturnResult ==
    /\ fpc = "return"
    /\ fpc' = "returned"
    /\ UNCHANGED <<result, field_hits, crawlVars, persistVars, listVars, envVars>>

FieldNext ==
    FindElementRule \/ CategoryRule \/ ImageRule \/ AdditionalBenefitsRule
    \/ ReturnResult

FieldSpec == FieldsStart /\ [][FieldNext]_vars

(***************************************************************************)
(* C14: a field rule that does not match its target element does not abort *)
(* the record: the record is returned with that field null (the empty list *)
(* for the categories) and with every other rule applied.                  *)
(***************************************************************************)
C14_UnmatchedFieldIsNull ==
    fpc = "returned" =>
        \A f \in Fields :
            IF f \in field_hits
            THEN result[f] \in {"text", "[text]"}
            ELSE result[f] = IF f = "activity_category" THEN "[]" ELSE "None"

(***************************************************************************)
(* C15: a failure on one record while it is prepared for reconciliation (a *)
(* views value that is not a number, a date that cannot be parsed) does    *)
(* not escape persist_contests_to_rds: no exception leaves the loop over   *)
(* the records.                                                            *)
(***************************************************************************)
C15_RecordFailureStaysLocal == ppc # "raised"

(***************************************************************************)
(* C16: when RDS_URL, RDS_USERNAME or RDS_PASSWORD is absent and           *)
(* persistence is not skipped, the run fails before the crawl starts: no   *)
(* browser is opened and no listing or detail page is requested.           *)
(***************************************************************************)
C16_NoCrawlWithoutConfiguration ==
    (~env_ok /\ ~skip_db) =>
        /\ session = Closed
        /\ requested = <<>>
        /\ visits = <<>>

(***************************************************************************)
(* C17: at most one browser is alive in every state of a crawl; a new one  *)
(* is created only after the previous one was shut down, also on the       *)
(* restarts after a timeout or a crash.                                    *)
(***************************************************************************)
C17_AtMostOneBrowser == session.live <= 1

C17_Witness ==
    /\ pc = "detail_after"
    /\ outcomes # <<>>
    /\ outcomes[Len(outcomes)] \in {"timeout", "crash"}
    /\ session.driver = "Open"
    /\ session.live = 1

(***************************************************************************)
(* C18: the listing of every page index is requested on a browser that was *)
(* opened for it, not on the one the previous page was loaded on.          *)
(***************************************************************************)
C18_EveryListingOnFreshSession ==
    \A i \in DOMAIN opened_for : opened_for[i] = "fresh"

(***************************************************************************)
(* C19: a browser is never shut down while it still shows the detail page  *)
(* it visited last: on every exit of a detail visit the page is set to     *)
(* blank before the teardown.                                              *)
(***************************************************************************)
C19_BlankBeforeTeardown == "detail" \notin teardown_views

(***************************************************************************)
(* C21: a detail visit is only started while the session is open: whenever *)
(* fetch_activity_details is about to be called, self.driver refers to a   *)
(* live browser.                                                           *)
(***************************************************************************)
C21_VisitStartsOnOpenSession ==
    pc = "detail_visit" => (session.driver = "Open" /\ session.live = 1)

(***************************************************************************)
(* C22: when no listing page yields URLs (page 1 empty, page 1 timed out,  *)
(* or max_pages = 0) the detail loop finds urls and limit assigned, and    *)
(* the crawl returns the empty sequence instead of raising.                *)
(***************************************************************************)
C22_EmptyCrawlReturns ==
    listed = <<>> =>
        /\ pc = "detail_loop" => {"urls", "limit"} \subseteq bound
        /\ pc = "raised" => fault = "WebDriverException"

\* the keys of the records of the batch that pass the validity test
BatchKeys ==
    { <<records[i].activity_title, OrganizationOf(records[i])>> :
        i \in { j \in DOMAIN records :
                  HasAllRequired(records[j]) /\ ViewsOk(records[j].views) } }

\* the ids existing_map gives for the keys of the batch
UpdateTargets == { existing_map[k] : k \in BatchKeys \cap DOMAIN existing_map }

(***************************************************************************)
(* C23: the update step changes only start_date, end_date and views, and   *)
(* only of rows whose id the key index gives for a key of the batch: the   *)
(* other columns, the rows of other keys and the number of rows stay.      *)
(***************************************************************************)
C23_UpdateFrame ==
    [][(ppc = "inserted" /\ ppc' = "updated") =>
        /\ Len(txn') = Len(txn)
        /\ \A i \in DOMAIN txn :
              /\ txn'[i].id = txn[i].id
              /\ txn'[i].name = txn[i].name
              /\ txn'[i].organization_name = txn[i].organization_name
              /\ txn'[i].image_url = txn[i].image_url
              /\ txn'[i].site_url = txn[i].site_url
              /\ txn[i].id \notin UpdateTargets => txn'[i] = txn[i]
              /\ KeyOf(txn[i]) \notin BatchKeys => txn'[i] = txn[i]]_vars

C23_Witness ==
    /\ ppc = "updated"
    /\ update_payloads # <<>>
    /\ Len(txn) = Len(store)
    /\ \E i, j \in DOMAIN store : txn[i] # store[i] /\ txn[j] = store[j]

(***************************************************************************)
(* Termination.  crawl_pages_by_click and the fetch_activity_urls it calls *)
(* are run as sequential code in which every browser call returns or       *)
(* raises, so a step of the code that is possible is eventually taken; the *)
(* page script (Render) is under no such obligation.  A behaviour is a     *)
(* crawl, in which fetch_activity_urls is the one step FetchUrls, or one   *)
(* call of fetch_activity_urls in detail.                                  *)
(***************************************************************************)
TermInit == Init \/ ListStart

TermNext == Next \/ ListNext

TermSpec ==
    /\ TermInit
    /\ [][TermNext]_vars
    /\ WF_vars(Next)
    /\ WF_vars(ListWait \/ Sample \/ Parse)

(***************************************************************************)
(* C24: the crawl always ends, by return or by an exception: it requests   *)
(* the listings of at most max_pages page indices (plus one reopening per  *)
(* preventive restart), a listing fetch takes at most 20 samples, every    *)
(* queued URL is visited at most once and in order, and a failed visit     *)
(* leaves exactly one fresh browser and moves on to the next URL.          *)
(***************************************************************************)
C24_AlwaysTerminates ==
    /\ [](/\ page <= max_pages
          /\ \A i \in DOMAIN requested : requested[i] \in 1..max_pages
          /\ Len(requested) <= max_pages + restarts
          /\ taken <= StabilizationBound
          /\ Len(visits) <= Len(queue)
          /\ \A i \in DOMAIN visits : visits[i] = queue[i]
          /\ Len(outcomes) = Len(visits))
    /\ [][(/\ Len(outcomes') > Len(outcomes)
           /\ outcomes'[Len(outcomes')] \in {"timeout", "crash"}) =>
             (session.live = 1 /\ session'.live = 1 /\ pc' = "detail_after")]_vars
    /\ <>(pc \in {"returned", "raised"} \/ lpc \in {"returned", "raised"})

C24_Witness ==
    /\ pc \in {"returned", "raised"}
    /\ max_pages >= 2
    /\ page = max_pages
    /\ \E i \in DOMAIN outcomes : outcomes[i] \in {"timeout", "crash"}

====
